---------------------------- MODULE Spec2Model ----------------------------
(***************************************************************************)
(* GeneMelody: the sequence-analysis core of DNA.py (clean_dna,            *)
(* base_counts_and_stats, find_motifs, find_orfs_all_frames,               *)
(* summarize_orfs), the Streamlit input flow that feeds it, and the input  *)
(* flow of gene_melody_streamlit.py.                                       *)
(*                                                                         *)
(* A Python str is a sequence of one-character strings.  A Python float is *)
(* an IEEE-754 double: zero, infinity, or a 53-bit mantissa (most          *)
(* significant bit first) with the exponent of its leading bit.            *)
(***************************************************************************)
EXTENDS Integers, Sequences, FiniteSets, TLC

VARIABLES
    call,           \* entry point exercised: the script run or one function
    path,           \* how the text reaches the script: "paste" or "upload"
    mode,           \* what iterating the uploaded file yields: "text" or "bytes"
    text,           \* the raw text typed, pasted or held by the uploaded file
    dna_input,      \* DNA.py: dna_input; gene_melody_streamlit.py: text_input
    dna,            \* the cleaned sequence (dna / valid_sequence)
    stats,          \* the dict returned by base_counts_and_stats
    shown,          \* the "AT/GC ratio" string of the displayed stats
    mi,             \* find_motifs: position of the current motif in the table
    start,          \* find_motifs: start
    found,          \* find_motifs: found
    motifs_found,   \* the list find_motifs returns
    frame,          \* find_orfs_all_frames: frame
    i,              \* find_orfs_all_frames: i
    j,              \* find_orfs_all_frames: j
    orfs,           \* find_orfs_all_frames: orfs
    summary,        \* what summarize_orfs returns
    raised,         \* the exception a step raised, or "none"
    pc              \* position in the flow

vars == <<call, path, mode, text, dna_input, dna, stats, shown, mi, start, found,
          motifs_found, frame, i, j, orfs, summary, raised, pc>>

-----------------------------------------------------------------------------
(* Bounds of the input families *)

MaxTok == 3        \* tokens of a raw text given to the script
MaxStatLen == 4    \* length of a sequence given to base_counts_and_stats
MaxRun == 12       \* length of a two-letter sequence given to base_counts_and_stats
MaxMotifTok == 3   \* tokens of a sequence given to find_motifs
MaxCodons == 4     \* tokens of a sequence given to find_orfs_all_frames

-----------------------------------------------------------------------------
(* Strings *)

BASE_NOTE_MAP == [c \in {"A", "T", "C", "G"} |->
                    CASE c = "A" -> 60 [] c = "T" -> 62 [] c = "C" -> 64 [] c = "G" -> 67]

STOP_CODONS == {<<"T", "A", "A">>, <<"T", "A", "G">>, <<"T", "G", "A">>}

ATG == <<"A", "T", "G">>

Whitespace == {" ", "\n"}

\* str.upper() on one character
UpperChar(c) ==
    CASE c = "a" -> "A" [] c = "t" -> "T" [] c = "c" -> "C" [] c = "g" -> "G"
      [] c = "n" -> "N" [] OTHER -> c

Upper(s) == [k \in 1..Len(s) |-> UpperChar(s[k])]

\* s[a:b] with 0-based a <= b, b clipped to len(s)
Slice(s, a, b) ==
    LET e == IF b > Len(s) THEN Len(s) ELSE b
    IN  IF a >= e THEN <<>> ELSE [k \in 1..(e - a) |-> s[a + k]]

RECURSIVE LStrip(_)
LStrip(s) == IF s # <<>> /\ Head(s) \in Whitespace THEN LStrip(Tail(s)) ELSE s

RECURSIVE RStrip(_)
RStrip(s) ==
    IF s # <<>> /\ s[Len(s)] \in Whitespace THEN RStrip(SubSeq(s, 1, Len(s) - 1)) ELSE s

\* str.strip()
Strip(s) == RStrip(LStrip(s))

\* ''.join(parts)
RECURSIVE Join(_)
Join(parts) == IF parts = <<>> THEN <<>> ELSE Head(parts) \o Join(Tail(parts))

\* the lines a file iteration yields: each keeps its trailing "\n"
RECURSIVE FileLines(_, _)
FileLines(s, cur) ==
    IF s = <<>> THEN (IF cur = <<>> THEN <<>> ELSE <<cur>>)
    ELSE IF Head(s) = "\n" THEN <<cur \o <<"\n">> >> \o FileLines(Tail(s), <<>>)
    ELSE FileLines(Tail(s), cur \o <<Head(s)>>)

\* str.splitlines(): the same lines without their "\n"
RECURSIVE SplitLines(_, _)
SplitLines(s, cur) ==
    IF s = <<>> THEN (IF cur = <<>> THEN <<>> ELSE <<cur>>)
    ELSE IF Head(s) = "\n" THEN <<cur>> \o SplitLines(Tail(s), <<>>)
    ELSE SplitLines(Tail(s), cur \o <<Head(s)>>)

StartsWithGt(line) == line # <<>> /\ Head(line) = ">"

RECURSIVE SelectLines(_)
SelectLines(ls) ==
    IF ls = <<>> THEN <<>>
    ELSE IF StartsWithGt(Head(ls)) THEN SelectLines(Tail(ls))
    ELSE <<Strip(Head(ls))>> \o SelectLines(Tail(ls))

\* ''.join(line.strip() for line in lines if not line.startswith(">"))
StripHeaders(ls) == Join(SelectLines(ls))

RECURSIVE KeepBases(_)
KeepBases(s) ==
    IF s = <<>> THEN <<>>
    ELSE IF Head(s) \in DOMAIN BASE_NOTE_MAP THEN <<Head(s)>> \o KeepBases(Tail(s))
    ELSE KeepBases(Tail(s))

\* variant: the filter without the case fold
CleanNoUpper(raw) == KeepBases(raw)

clean_dna(raw) == KeepBases(Upper(raw))

\* gene_melody_streamlit.py: text_input.upper().strip(), then the filter
valid_sequence(text_input) == KeepBases(Strip(Upper(text_input)))

-----------------------------------------------------------------------------
(* IEEE-754 doubles *)
(* An intermediate result that is used more than once is bound by         *)
(* CHOOSE r \in {F(v) : v \in {e}} : TRUE, which evaluates e once.         *)

Precision == 53

Inf == [inf |-> TRUE, m |-> <<>>, e |-> 0]

Zero == [inf |-> FALSE, m |-> <<>>, e |-> 0]

Zeros(n) == [k \in 1..n |-> 0]

\* a bit string without its leading zeros
BigTrim(b) ==
    IF \A k \in 1..Len(b) : b[k] = 0 THEN <<>>
    ELSE SubSeq(b, CHOOSE k \in 1..Len(b) : b[k] = 1 /\ \A h \in 1..(k - 1) : b[h] = 0,
                Len(b))

RECURSIVE IntToBits(_)
IntToBits(n) == IF n = 0 THEN <<>> ELSE IntToBits(n \div 2) \o <<n % 2>>

\* Bit strings are worked on in limbs of LimbBits bits, so that every
\* intermediate value fits the 32-bit integers of TLC.
LimbBits == 8

LimbBase == 2 ^ LimbBits

\* the limbs of a bit string whose length is a multiple of LimbBits
LimbsOf(p) ==
    [k \in 1..(Len(p) \div LimbBits) |->
        p[LimbBits * k - 7] * 128 + p[LimbBits * k - 6] * 64 + p[LimbBits * k - 5] * 32
          + p[LimbBits * k - 4] * 16 + p[LimbBits * k - 3] * 8 + p[LimbBits * k - 2] * 4
          + p[LimbBits * k - 1] * 2 + p[LimbBits * k]]

Limbs(b) ==
    CHOOSE r \in {LimbsOf(p) :
                    p \in {Zeros((LimbBits - (Len(b) % LimbBits)) % LimbBits) \o b}} : TRUE

FromLimbs(l) ==
    [k \in 1..(LimbBits * Len(l)) |->
        (l[(k - 1) \div LimbBits + 1] \div (2 ^ (LimbBits - 1 - ((k - 1) % LimbBits)))) % 2]

\* carry out of limbs k+1..Len(l) of l * m
RECURSIVE MulCarry(_, _, _)
MulCarry(l, m, k) ==
    IF k >= Len(l) THEN 0 ELSE (l[k + 1] * m + MulCarry(l, m, k + 1)) \div LimbBase

MulLimbs(l, m) ==
    IntToBits(MulCarry(l, m, 0))
        \o FromLimbs([k \in 1..Len(l) |-> (l[k] * m + MulCarry(l, m, k)) % LimbBase])

\* b * m for a bit string b and a small natural m
BigMulSmall(b, m) ==
    CHOOSE r \in {BigTrim(p) : p \in {MulLimbs(l, m) : l \in {Limbs(b)}}} : TRUE

\* carry out of limbs k+1..Len(a) of a + b, for limb strings of one length
RECURSIVE AddCarry(_, _, _)
AddCarry(a, b, k) ==
    IF k >= Len(a) THEN 0 ELSE (a[k + 1] + b[k + 1] + AddCarry(a, b, k + 1)) \div LimbBase

AddLimbs(a, b) ==
    IntToBits(AddCarry(a, b, 0))
        \o FromLimbs([k \in 1..Len(a) |-> (a[k] + b[k] + AddCarry(a, b, k)) % LimbBase])

\* x + y for bit strings of one length
AddEq(x, y) ==
    CHOOSE r \in {BigTrim(p) : p \in {AddLimbs(a, b) : a \in {Limbs(x)}, b \in {Limbs(y)}}} :
        TRUE

BigAdd(x, y) ==
    IF Len(x) > Len(y) THEN AddEq(x, Zeros(Len(x) - Len(y)) \o y)
    ELSE AddEq(Zeros(Len(y) - Len(x)) \o x, y)

\* remainder of the first k limbs of l divided by d
RECURSIVE DivRem(_, _, _)
DivRem(l, d, k) ==
    IF k = 0 THEN 0 ELSE (DivRem(l, d, k - 1) * LimbBase + l[k]) % d

DivLimbs(l, d) ==
    FromLimbs([k \in 1..Len(l) |-> (DivRem(l, d, k - 1) * LimbBase + l[k]) \div d])

\* quotient of the bit string b by the small natural d > 0
BigDivSmall(b, d) ==
    CHOOSE r \in {BigTrim(p) : p \in {DivLimbs(l, d) : l \in {Limbs(b)}}} : TRUE

\* remainder of the bit string b by the small natural d > 0
BigModSmall(b, d) == CHOOSE r \in {DivRem(l, d, Len(l)) : l \in {Limbs(b)}} : TRUE

\* the double nearest to t * 2^lsb (round half to even), t without leading zeros
RoundTrimmed(t, lsb) ==
    IF Len(t) = 0 THEN Zero
    ELSE IF Len(t) <= Precision
    THEN [inf |-> FALSE, m |-> t \o Zeros(Precision - Len(t)), e |-> lsb + Len(t) - 1]
    ELSE IF t[Precision + 1] = 1
            /\ (t[Precision] = 1 \/ \E k \in (Precision + 2)..Len(t) : t[k] = 1)
    THEN CHOOSE x \in {[inf |-> FALSE, m |-> SubSeq(r, 1, Precision),
                        e |-> lsb + Len(t) - 1 + (Len(r) - Precision)] :
                          r \in {BigAdd(SubSeq(t, 1, Precision), <<1>>)}} : TRUE
    ELSE [inf |-> FALSE, m |-> SubSeq(t, 1, Precision), e |-> lsb + Len(t) - 1]

\* the double nearest to bits * 2^lsb
RoundToFloat(bits, lsb) ==
    CHOOSE x \in {RoundTrimmed(t, lsb) : t \in {BigTrim(bits)}} : TRUE

\* float(n) for a natural n
FromInt(n) == RoundToFloat(IntToBits(n), 0)

\* exponent of the last mantissa bit
Lsb(x) == x.e - (Precision - 1)

\* x * k for a finite float x and the float of a small natural k
FMulSmall(x, k) ==
    CHOOSE r \in {IF v = Zero \/ k = 0 THEN Zero
                  ELSE RoundToFloat(BigMulSmall(v.m, k), Lsb(v)) : v \in {x}} : TRUE

\* the quotient n / d carried s bits, with a sticky bit for the remainder
DivBits(n, d) ==
    BigDivSmall(n, d) \o <<IF BigModSmall(n, d) = 0 THEN 0 ELSE 1>>

\* x / d for a finite float x and the float of a small natural d > 0: the
\* quotient is carried two bits past the precision
FDivSmall(x, d) ==
    CHOOSE r \in {IF v = Zero THEN Zero
                  ELSE RoundToFloat(DivBits(v.m \o Zeros(s), d), Lsb(v) - s - 1) :
                    v \in {x}, s \in {Len(IntToBits(d)) + 2}} : TRUE

\* x + y for finite floats
FAddAt(x, y, l) ==
    RoundToFloat(BigAdd(x.m \o Zeros(Lsb(x) - l), y.m \o Zeros(Lsb(y) - l)), l)

FAdd(x, y) ==
    CHOOSE r \in {IF v = Zero THEN w
                  ELSE IF w = Zero THEN v
                  ELSE FAddAt(v, w, IF Lsb(v) < Lsb(w) THEN Lsb(v) ELSE Lsb(w)) :
                    v \in {x}, w \in {y}} : TRUE

-----------------------------------------------------------------------------
(* Exact dyadic numbers bits * 2^lsb, used to state numerical properties *)

Dy(bits, lsb) == [b |-> bits, l |-> lsb]

Exact(x) == Dy(x.m, Lsb(x))

DyInt(n) == Dy(IntToBits(n), 0)

DyAlign(x, l) == x.b \o Zeros(x.l - l)

DyMin(x, y) == IF x.l < y.l THEN x.l ELSE y.l

DyAdd(x, y) ==
    CHOOSE r \in {Dy(BigAdd(DyAlign(v, DyMin(v, w)), DyAlign(w, DyMin(v, w))), DyMin(v, w)) :
                    v \in {x}, w \in {y}} : TRUE

DyMulSmall(x, k) == Dy(BigMulSmall(x.b, k), x.l)

\* a <= b for bit strings
LeqEq(p, q) ==
    p = q \/ \E k \in 1..Len(p) : p[k] < q[k] /\ \A h \in 1..(k - 1) : p[h] = q[h]

BigLeq(a, b) ==
    \E p \in {Zeros(Len(b) - Len(a)) \o a} : \E q \in {Zeros(Len(a) - Len(b)) \o b} :
        LeqEq(p, q)

DyLeq(x, y) ==
    \E v \in {x} : \E w \in {y} :
        BigLeq(DyAlign(v, DyMin(v, w)), DyAlign(w, DyMin(v, w)))

\* |x - y| <= t
DyWithin(x, y, t) ==
    \E v \in {x} : \E w \in {y} : DyLeq(v, DyAdd(w, t)) /\ DyLeq(w, DyAdd(v, t))

-----------------------------------------------------------------------------
(* base_counts_and_stats *)

AVG_NT_DA == FromInt(330)

\* collections.Counter(dna): the symbols present, each with its count
Counter(s) ==
    [c \in {s[k] : k \in 1..Len(s)} |-> Cardinality({k \in 1..Len(s) : s[k] = c})]

\* counts.get(c, 0)
Get(counts, c) == IF c \in DOMAIN counts THEN counts[c] ELSE 0

\* variant: the length without the guard for the empty sequence
StatsTotalNoGuard(s) == Len(s)

\* total = len(dna) if dna else 1
StatsTotal(s) == IF s # <<>> THEN Len(s) ELSE 1

GcCount(counts) == Get(counts, "G") + Get(counts, "C")

\* variant: A alone counted as AT
AtCountOnlyA(counts) == Get(counts, "A")

AtCount(counts) == Get(counts, "A") + Get(counts, "T")

\* a raised exception, where a value was expected
Raise(name) == [exc |-> name]

IsRaise(v) == "exc" \in DOMAIN v

\* a / b on ints: a float, or ZeroDivisionError
PyDiv(a, b) == IF b = 0 THEN Raise("ZeroDivisionError") ELSE FDivSmall(FromInt(a), b)

\* (a / b) * 100
Percent(a, b) ==
    CHOOSE r \in {IF IsRaise(q) THEN q ELSE FMulSmall(q, 100) : q \in {PyDiv(a, b)}} : TRUE

\* variant: the quotient without the gc > 0 guard
AtGcRatioNoGuard(at, gc) == PyDiv(at, gc)

\* (at / gc) if gc > 0 else float('inf')
AtGcRatio(at, gc) == IF gc > 0 THEN PyDiv(at, gc) ELSE Inf

\* the dict returned, or the exception one of its entries raised
StatsDict(r) ==
    IF IsRaise(r.gc_percent) \/ IsRaise(r.at_percent) \/ IsRaise(r.at_gc_ratio)
    THEN Raise("ZeroDivisionError") ELSE r

base_counts_and_stats(s) ==
    CHOOSE d \in {StatsDict([counts |-> counts,
                             total |-> Len(s),
                             gc_percent |-> Percent(GcCount(counts), StatsTotal(s)),
                             at_percent |-> Percent(AtCount(counts), StatsTotal(s)),
                             at_gc_ratio |-> AtGcRatio(AtCount(counts), GcCount(counts)),
                             mw_da |-> mw_da,
                             mw_kda |-> FDivSmall(mw_da, 1000)]) :
                    counts \in {Counter(s)}, mw_da \in {FMulSmall(AVG_NT_DA, Len(s))}} : TRUE

\* the integer nearest to x * 1000 (half to even), as f"{x:.3f}" rounds
RoundShift(p, drop) ==
    IF drop <= 0 THEN p \o Zeros(0 - drop)
    ELSE IF drop > Len(p) THEN <<>>
    ELSE IF p[Len(p) - drop + 1] = 1
            /\ ((drop < Len(p) /\ p[Len(p) - drop] = 1)
                \/ \E k \in (Len(p) - drop + 2)..Len(p) : p[k] = 1)
    THEN BigAdd(SubSeq(p, 1, Len(p) - drop), <<1>>)
    ELSE SubSeq(p, 1, Len(p) - drop)

Thousandths(x) ==
    IF x = Zero THEN <<>>
    ELSE CHOOSE r \in {RoundShift(p, 0 - Lsb(x)) : p \in {BigMulSmall(x.m, 1000)}} : TRUE

InfinitySign == "(U+221E)"

\* "∞" if stats['at_gc_ratio'] == float('inf') else f"{stats['at_gc_ratio']:.3f}"
ShowRatio(r) ==
    IF r = Inf THEN [text |-> InfinitySign]
    ELSE [fmt |-> ".3f", thousandths |-> Thousandths(r)]

-----------------------------------------------------------------------------
(* find_motifs *)

\* DNA_MEANINGS in insertion order; the meanings in ASCII
DNA_MEANINGS == <<
    [motif |-> <<"T", "A", "T", "A", "A", "A">>, meaning |-> "TATA box (variant: TATAAA) - promoter element near TSS."],
    [motif |-> <<"T", "A", "T", "A", "T", "A">>, meaning |-> "TATA box (variant: TATATA) - promoter element near TSS."],
    [motif |-> <<"T", "A", "T", "A", "T", "T">>, meaning |-> "TATA box (variant: TATATT) - promoter element near TSS."],
    [motif |-> <<"T", "A", "T", "A", "A", "T">>, meaning |-> "TATA box (variant: TATAAT) - promoter element near TSS."],
    [motif |-> <<"T", "A", "T", "G", "A", "A">>, meaning |-> "TATA-like box (variant: TATGAA) - promoter element near TSS."],
    [motif |-> <<"C", "A", "A", "T">>, meaning |-> "CAAT box - TF-binding site (often about 50-200 bp upstream of TSS)."],
    [motif |-> <<"C", "C", "A", "A", "T">>, meaning |-> "CAAT box (CCAAT) - TF-binding site (about 50-200 bp upstream of TSS)."],
    [motif |-> <<"C", "A", "A", "T", "T">>, meaning |-> "CAAT box (CAATT) - TF-binding site (about 50-200 bp upstream of TSS)."],
    [motif |-> <<"C", "C", "A", "T", "T">>, meaning |-> "CAAT box (CCATT) - TF-binding site (about 50-200 bp upstream of TSS)."],
    [motif |-> <<"G", "G", "G", "C", "G", "G">>, meaning |-> "GC box (GGGCGG) - GC-rich TF-binding site."],
    [motif |-> <<"G", "G", "G", "A", "G", "G">>, meaning |-> "GC box (GGGAGG) - GC-rich TF-binding site."],
    [motif |-> <<"G", "G", "G", "C", "C", "G">>, meaning |-> "GC box (GGGCCG) - GC-rich TF-binding site."],
    [motif |-> <<"G", "C", "G", "G", "G", "G">>, meaning |-> "GC box (GCGGGG) - GC-rich TF-binding site."],
    [motif |-> <<"G", "A", "A", "T", "T", "C">>, meaning |-> "EcoRI restriction site (GAATTC)."],
    [motif |-> <<"G", "G", "A", "T", "C", "C">>, meaning |-> "BamHI restriction site (GGATCC)."],
    [motif |-> <<"A", "A", "G", "C", "T", "T">>, meaning |-> "HindIII restriction site (AAGCTT)."],
    [motif |-> <<"C", "T", "G", "C", "A", "G">>, meaning |-> "PstI restriction site (CTGCAG)."],
    [motif |-> <<"C", "C", "C", "G", "G", "G">>, meaning |-> "SmaI restriction site (CCCGGG)."],
    [motif |-> <<"G", "C", "G", "G", "C", "C", "G", "C">>, meaning |-> "NotI restriction site (GCGGCCGC)."],
    [motif |-> <<"T", "C", "T", "A", "G", "A">>, meaning |-> "XbaI restriction site (TCTAGA)."],
    [motif |-> <<"G", "C", "T", "A", "G", "C">>, meaning |-> "NheI restriction site (GCTAGC)."],
    [motif |-> <<"G", "G", "T", "A", "C", "C">>, meaning |-> "KpnI restriction site (GGTACC)."],
    [motif |-> <<"G", "A", "G", "C", "T", "C">>, meaning |-> "SacI restriction site (GAGCTC)."]
>>

\* dna.find(motif, start)
Find(s, sub, from) ==
    LET hits == {k \in from..(Len(s) - Len(sub)) : Slice(s, k, k + Len(sub)) = sub}
    IN  IF hits = {} THEN -1 ELSE CHOOSE k \in hits : \A h \in hits : k <= h

\* variant: the search resumes past the whole match
NextStartPastMatch(idx, motif) == idx + Len(motif)

\* start = idx + 1
NextStart(idx, motif) == idx + 1

\* variant: an insertion that puts an entry before those of equal start
RECURSIVE InsertByStartUnstable(_, _)
InsertByStartUnstable(sorted, x) ==
    IF sorted = <<>> THEN <<x>>
    ELSE IF sorted[Len(sorted)].start < x.start THEN Append(sorted, x)
    ELSE Append(InsertByStartUnstable(SubSeq(sorted, 1, Len(sorted) - 1), x),
                sorted[Len(sorted)])

\* sorted(found, key=lambda x: x["start"]): a stable sort
RECURSIVE InsertByStart(_, _)
InsertByStart(sorted, x) ==
    IF sorted = <<>> THEN <<x>>
    ELSE IF sorted[Len(sorted)].start <= x.start THEN Append(sorted, x)
    ELSE Append(InsertByStart(SubSeq(sorted, 1, Len(sorted) - 1), x), sorted[Len(sorted)])

RECURSIVE SortedByStart(_)
SortedByStart(l) ==
    IF l = <<>> THEN <<>>
    ELSE CHOOSE r \in {InsertByStart(pre, l[Len(l)]) :
                          pre \in {SortedByStart(SubSeq(l, 1, Len(l) - 1))}} : TRUE

-----------------------------------------------------------------------------
(* find_orfs_all_frames and summarize_orfs *)

Frames == 3

Codon == 3

ORFEntry(f, a, b) ==
    [frame |-> f, start |-> a + 1, end |-> b + Codon,
     length_nt |-> (b + Codon) - a, length_aa |-> ((b + Codon) - a) \div 3]

\* variant: the outer loop resumes past the codon the inner loop ended at
OuterAdvancePastOrf(a, b) == b + Codon

\* i += 3 of the outer loop, after the inner loop at j ended (found or not)
OuterAdvance(a, b) == a + Codon

\* variant: the inner loop does not advance
InnerStay(b) == b

\* j += 3
InnerAdvance(b) == b + Codon

\* variant: the last entry of maximum key
RECURSIVE MaxByLengthLast(_)
MaxByLengthLast(l) ==
    IF l = <<>> THEN Raise("ValueError")
    ELSE IF Len(l) = 1 THEN l[1]
    ELSE CHOOSE r \in {IF l[Len(l)].length_nt >= best.length_nt THEN l[Len(l)] ELSE best :
                          best \in {MaxByLengthLast(SubSeq(l, 1, Len(l) - 1))}} : TRUE

\* max(orfs, key=lambda o: o["length_nt"]): the first entry of maximum key
RECURSIVE MaxByLength(_)
MaxByLength(l) ==
    IF l = <<>> THEN Raise("ValueError")
    ELSE IF Len(l) = 1 THEN l[1]
    ELSE CHOOSE r \in {IF l[Len(l)].length_nt > best.length_nt THEN l[Len(l)] ELSE best :
                          best \in {MaxByLength(SubSeq(l, 1, Len(l) - 1))}} : TRUE

summarize_orfs(l) ==
    IF l = <<>> THEN [text |-> "No ORFs found."]
    ELSE [total |-> Len(l), longest |-> MaxByLength(l)]

-----------------------------------------------------------------------------
(* Inputs *)

RECURSIVE Texts(_, _)
Texts(tokens, n) ==
    IF n = 0 THEN {<<>>}
    ELSE Texts(tokens, n - 1) \cup {s \o tok : s \in Texts(tokens, n - 1), tok \in tokens}

\* raw texts: a header mark, a lower-case base, a letter that is no base,
\* a blank and a line break
RawTexts == Texts({<<">">>, <<"a">>, <<"n">>, <<" ">>, <<"\n">>}, MaxTok)

\* a letters c followed by b letters d
Run(a, c, b, d) == [k \in 1..(a + b) |-> IF k <= a THEN c ELSE d]

\* every short sequence, and every longer one made of A then G or T then C
StatSeqs ==
    Texts({<<"A">>, <<"T">>, <<"C">>, <<"G">>}, MaxStatLen)
        \cup {Run(a, "A", n - a, "G") : <<a, n>> \in {x \in (0..MaxRun) \X (0..MaxRun) : x[1] <= x[2]}}
        \cup {Run(a, "T", n - a, "C") : <<a, n>> \in {x \in (0..MaxRun) \X (0..MaxRun) : x[1] <= x[2]}}

MotifSeqs ==
    Texts({<<"T", "A", "T", "A">>, <<"C", "A", "A", "T", "T">>, <<"G", "A", "A", "T", "T", "C">>,
           <<"C">>}, MaxMotifTok)

\* "ATGAAATAG" and a sequence whose two longest ORFs tie across frames
Samples ==
    {<<"A", "T", "G", "A", "A", "A", "T", "A", "G">>,
     <<"A", "A", "T", "G", "T", "A", "A", "T", "G", "T", "A", "A">>}

OrfSeqs ==
    Texts({ATG, <<"T", "A", "A">>, <<"T", "A", "G">>, <<"T", "G", "A">>, <<"C">>}, MaxCodons)
        \cup Samples

Scripts == {"DNA.py", "gene_melody_streamlit.py"}

Unset == [unset |-> TRUE]

Blank ==
    /\ dna_input = <<>> /\ stats = Unset /\ shown = Unset
    /\ mi = 1 /\ start = 0 /\ found = <<>> /\ motifs_found = <<>>
    /\ frame = 0 /\ i = 0 /\ j = 0 /\ orfs = <<>>
    /\ summary = Unset /\ raised = "none"

InitScript ==
    /\ call \in Scripts
    /\ path \in {"paste", "upload"}
    /\ mode \in (IF call = "DNA.py" /\ path = "upload" THEN {"text", "bytes"} ELSE {"n/a"})
    /\ text \in RawTexts
    /\ dna = <<>>
    /\ pc = "input"
    /\ Blank

InitCall ==
    /\ \/ call = "base_counts_and_stats" /\ dna \in StatSeqs /\ pc = "stats"
       \/ call = "find_motifs" /\ dna \in MotifSeqs /\ pc = "motifs"
       \/ call = "find_orfs_all_frames" /\ dna \in OrfSeqs /\ pc = "orfs"
    /\ path = "n/a" /\ mode = "n/a" /\ text = <<>>
    /\ Blank

Init == InitScript \/ InitCall

-----------------------------------------------------------------------------
(* What follows each step, by entry point *)

AfterStats == IF call = "DNA.py" THEN "motifs" ELSE "show"

AfterMotifs == IF call = "DNA.py" THEN "orfs" ELSE "done"

AfterOrfs == IF call = "DNA.py" THEN "show" ELSE "summarize"

AfterShow == IF call = "DNA.py" THEN "summarize" ELSE "done"

-----------------------------------------------------------------------------
(* DNA.py: input *)

\* no file uploaded: dna_input is the text area
Paste ==
    /\ pc = "input" /\ call = "DNA.py" /\ path = "paste"
    /\ dna_input' = text
    /\ pc' = "button"
    /\ UNCHANGED <<call, path, mode, text, dna, stats, shown, mi, start, found,
                   motifs_found, frame, i, j, orfs, summary, raised>>

\* a file uploaded, iterated as text lines
UploadText ==
    /\ pc = "input" /\ call = "DNA.py" /\ path = "upload" /\ mode = "text"
    /\ dna_input' = clean_dna(StripHeaders(FileLines(text, <<>>)))
    /\ pc' = "button"
    /\ UNCHANGED <<call, path, mode, text, dna, stats, shown, mi, start, found,
                   motifs_found, frame, i, j, orfs, summary, raised>>

\* a file uploaded, iterated as bytes lines: bytes.startswith(str) raises
UploadBytes ==
    /\ pc = "input" /\ call = "DNA.py" /\ path = "upload" /\ mode = "bytes"
    /\ IF FileLines(text, <<>>) = <<>>
       THEN /\ dna_input' = clean_dna(<<>>)
            /\ pc' = "button"
            /\ UNCHANGED raised
       ELSE /\ raised' = "TypeError"
            /\ pc' = "raised"
            /\ UNCHANGED dna_input
    /\ UNCHANGED <<call, path, mode, text, dna, stats, shown, mi, start, found,
                   motifs_found, frame, i, j, orfs, summary>>

\* the button with nothing entered: st.error
GeneratePrompt ==
    /\ pc = "button" /\ dna_input = <<>>
    /\ pc' = "prompt"
    /\ UNCHANGED <<call, path, mode, text, dna_input, dna, stats, shown, mi, start, found,
                   motifs_found, frame, i, j, orfs, summary, raised>>

\* the button: dna = clean_dna(dna_input)
GenerateClean ==
    /\ pc = "button" /\ dna_input # <<>>
    /\ dna' = clean_dna(dna_input)
    /\ pc' = "stats"
    /\ UNCHANGED <<call, path, mode, text, dna_input, stats, shown, mi, start, found,
                   motifs_found, frame, i, j, orfs, summary, raised>>

-----------------------------------------------------------------------------
(* gene_melody_streamlit.py: input *)

\* the uploaded file fills the text area
MelodyUpload ==
    /\ pc = "input" /\ call = "gene_melody_streamlit.py" /\ path = "upload"
    /\ dna_input' = StripHeaders(SplitLines(text, <<>>))
    /\ pc' = "validate"
    /\ UNCHANGED <<call, path, mode, text, dna, stats, shown, mi, start, found,
                   motifs_found, frame, i, j, orfs, summary, raised>>

\* the text is typed or pasted into the text area
MelodyPaste ==
    /\ pc = "input" /\ call = "gene_melody_streamlit.py" /\ path = "paste"
    /\ dna_input' = text
    /\ pc' = "validate"
    /\ UNCHANGED <<call, path, mode, text, dna, stats, shown, mi, start, found,
                   motifs_found, frame, i, j, orfs, summary, raised>>

MelodyValidate ==
    /\ pc = "validate"
    /\ dna' = valid_sequence(dna_input)
    /\ pc' = "done"
    /\ UNCHANGED <<call, path, mode, text, dna_input, stats, shown, mi, start, found,
                   motifs_found, frame, i, j, orfs, summary, raised>>

-----------------------------------------------------------------------------
(* Analysis steps *)

Stats ==
    /\ pc = "stats"
    /\ \E r \in {base_counts_and_stats(dna)} :
          IF IsRaise(r)
          THEN /\ raised' = r.exc
               /\ pc' = "raised"
               /\ UNCHANGED stats
          ELSE /\ stats' = r
               /\ pc' = AfterStats
               /\ UNCHANGED raised
    /\ UNCHANGED <<call, path, mode, text, dna_input, dna, shown, mi, start, found,
                   motifs_found, frame, i, j, orfs, summary>>

\* the "AT/GC ratio" entry of the displayed stats
Show ==
    /\ pc = "show"
    /\ shown' = ShowRatio(stats.at_gc_ratio)
    /\ pc' = AfterShow
    /\ UNCHANGED <<call, path, mode, text, dna_input, dna, stats, mi, start, found,
                   motifs_found, frame, i, j, orfs, summary, raised>>

\* find_motifs, inner loop: a match is recorded and the search resumes
MotifFound ==
    /\ pc = "motifs" /\ mi <= Len(DNA_MEANINGS)
    /\ \E idx \in {Find(dna, DNA_MEANINGS[mi].motif, start)} :
          /\ idx # -1
          /\ found' = Append(found, [motif |-> DNA_MEANINGS[mi].motif,
                                     start |-> idx + 1,
                                     meaning |-> DNA_MEANINGS[mi].meaning])
          /\ start' = NextStart(idx, DNA_MEANINGS[mi].motif)
    /\ UNCHANGED <<call, path, mode, text, dna_input, dna, stats, shown, mi,
                   motifs_found, frame, i, j, orfs, summary, raised, pc>>

\* find_motifs, inner loop: no further match, on to the next motif
MotifBreak ==
    /\ pc = "motifs" /\ mi <= Len(DNA_MEANINGS)
    /\ Find(dna, DNA_MEANINGS[mi].motif, start) = -1
    /\ mi' = mi + 1
    /\ start' = 0
    /\ UNCHANGED <<call, path, mode, text, dna_input, dna, stats, shown, found,
                   motifs_found, frame, i, j, orfs, summary, raised, pc>>

\* find_motifs: every motif tried, the sorted list is returned
MotifReturn ==
    /\ pc = "motifs" /\ mi > Len(DNA_MEANINGS)
    /\ motifs_found' = SortedByStart(found)
    /\ pc' = AfterMotifs
    /\ UNCHANGED <<call, path, mode, text, dna_input, dna, stats, shown, mi, start, found,
                   frame, i, j, orfs, summary, raised>>

\* find_orfs_all_frames, outer loop: the codon at i is no start codon
OrfSkip ==
    /\ pc = "orfs" /\ frame < Frames /\ i + Codon <= Len(dna)
    /\ Slice(dna, i, i + Codon) # ATG
    /\ i' = i + Codon
    /\ UNCHANGED <<call, path, mode, text, dna_input, dna, stats, shown, mi, start, found,
                   motifs_found, frame, j, orfs, summary, raised, pc>>

\* find_orfs_all_frames, outer loop: a start codon at i, j = i
OrfStart ==
    /\ pc = "orfs" /\ frame < Frames /\ i + Codon <= Len(dna)
    /\ Slice(dna, i, i + Codon) = ATG
    /\ j' = i
    /\ pc' = "orf_inner"
    /\ UNCHANGED <<call, path, mode, text, dna_input, dna, stats, shown, mi, start, found,
                   motifs_found, frame, i, orfs, summary, raised>>

\* inner loop: the codon at j is no stop codon
OrfInnerStep ==
    /\ pc = "orf_inner" /\ j + Codon <= Len(dna)
    /\ Slice(dna, j, j + Codon) \notin STOP_CODONS
    /\ j' = InnerAdvance(j)
    /\ UNCHANGED <<call, path, mode, text, dna_input, dna, stats, shown, mi, start, found,
                   motifs_found, frame, i, orfs, summary, raised, pc>>

\* inner loop: a stop codon at j, the ORF is recorded, break, i += 3
OrfInnerStop ==
    /\ pc = "orf_inner" /\ j + Codon <= Len(dna)
    /\ Slice(dna, j, j + Codon) \in STOP_CODONS
    /\ orfs' = Append(orfs, ORFEntry(frame, i, j))
    /\ i' = OuterAdvance(i, j)
    /\ pc' = "orfs"
    /\ UNCHANGED <<call, path, mode, text, dna_input, dna, stats, shown, mi, start, found,
                   motifs_found, frame, j, summary, raised>>

\* inner loop: the sequence ends before a stop codon, i += 3
OrfInnerEnd ==
    /\ pc = "orf_inner" /\ j + Codon > Len(dna)
    /\ i' = OuterAdvance(i, j)
    /\ pc' = "orfs"
    /\ UNCHANGED <<call, path, mode, text, dna_input, dna, stats, shown, mi, start, found,
                   motifs_found, frame, j, orfs, summary, raised>>

\* outer loop over, the next frame starts at i = frame
OrfNextFrame ==
    /\ pc = "orfs" /\ frame < Frames /\ i + Codon > Len(dna)
    /\ frame' = frame + 1
    /\ i' = frame + 1
    /\ UNCHANGED <<call, path, mode, text, dna_input, dna, stats, shown, mi, start, found,
                   motifs_found, j, orfs, summary, raised, pc>>

\* every frame scanned, orfs is returned
OrfReturn ==
    /\ pc = "orfs" /\ frame >= Frames
    /\ pc' = AfterOrfs
    /\ UNCHANGED <<call, path, mode, text, dna_input, dna, stats, shown, mi, start, found,
                   motifs_found, frame, i, j, orfs, summary, raised>>

Summarize ==
    /\ pc = "summarize"
    /\ \E r \in {summarize_orfs(orfs)} :
          IF "longest" \in DOMAIN r /\ IsRaise(r.longest)
          THEN /\ raised' = r.longest.exc
               /\ pc' = "raised"
               /\ UNCHANGED summary
          ELSE /\ summary' = r
               /\ pc' = "done"
               /\ UNCHANGED raised
    /\ UNCHANGED <<call, path, mode, text, dna_input, dna, stats, shown, mi, start, found,
                   motifs_found, frame, i, j, orfs>>

Next ==
    \/ Paste \/ UploadText \/ UploadBytes \/ GeneratePrompt \/ GenerateClean
    \/ MelodyUpload \/ MelodyPaste \/ MelodyValidate
    \/ Stats \/ Show
    \/ MotifFound \/ MotifBreak \/ MotifReturn
    \/ OrfSkip \/ OrfStart \/ OrfInnerStep \/ OrfInnerStop \/ OrfInnerEnd
    \/ OrfNextFrame \/ OrfReturn
    \/ Summarize

Spec == Init /\ [][Next]_vars

\* one step of a running call of find_motifs
FindMotifsStep == MotifFound \/ MotifBreak \/ MotifReturn

\* one step of a running call of find_orfs_all_frames
FindOrfsStep ==
    \/ OrfSkip \/ OrfStart \/ OrfInnerStep \/ OrfInnerStop \/ OrfInnerEnd
    \/ OrfNextFrame \/ OrfReturn

\* a running loop keeps being executed: nothing in it waits on anything
FairSpec == Spec /\ WF_vars(FindMotifsStep) /\ WF_vars(FindOrfsStep)

InFindMotifs == pc = "motifs"

InFindOrfs == pc \in {"orfs", "orf_inner"}

-----------------------------------------------------------------------------
(* Properties *)

Bases == {"A", "T", "C", "G"}

\* the elements of s at the positions P, in increasing order of position
SubseqAt(s, P) ==
    [k \in 1..Cardinality(P) |->
        s[CHOOSE p \in P : Cardinality({q \in P : q <= p}) = k]]

\* the letters of raw that are bases once upper-cased, in their order
BasesOf(raw) == SubseqAt(Upper(raw), {p \in 1..Len(raw) : UpperChar(raw[p]) \in Bases})

\* position p of s lies on a line that begins with ">"
InHeaderLine(s, p) ==
    \E q \in 1..p :
        /\ q = 1 \/ s[q - 1] = "\n"
        /\ \A r \in q..(p - 1) : s[r] # "\n"
        /\ s[q] = ">"

\* the bases of the lines of s that do not begin with ">"
BasesOutsideHeaders(s) ==
    SubseqAt(Upper(s), {p \in 1..Len(s) : UpperChar(s[p]) \in Bases /\ ~InHeaderLine(s, p)})

\* a script has cleaned its input into dna
ScriptCleaned ==
    \/ call = "DNA.py" /\ pc \notin {"input", "button", "prompt", "raised"}
    \/ call = "gene_melody_streamlit.py" /\ pc = "done"

StatsDone == stats # Unset

MotifsReturned ==
    /\ call \in {"DNA.py", "find_motifs"}
    /\ pc \in {"orfs", "orf_inner", "show", "summarize", "done"}

OrfsReturned ==
    /\ call \in {"DNA.py", "find_orfs_all_frames"}
    /\ pc \in {"show", "summarize", "done"}

Elems(l) == {l[k] : k \in 1..Len(l)}

\* the in-frame stop codons after the start codon at 0-based index a
StopsAfter(s, a) ==
    {b \in (a + 1)..(Len(s) - 3) :
        (b - a) % 3 = 0
        /\ Slice(s, b, b + 3) \in {<<"T", "A", "A">>, <<"T", "A", "G">>, <<"T", "G", "A">>}}

FirstStop(s, a) == CHOOSE b \in StopsAfter(s, a) : \A c \in StopsAfter(s, a) : b <= c

ExpectedORFs(s) ==
    {[frame |-> a % 3, start |-> a + 1, end |-> FirstStop(s, a) + 3,
      length_nt |-> (FirstStop(s, a) + 3) - a,
      length_aa |-> ((FirstStop(s, a) + 3) - a) \div 3] :
        a \in {c \in 0..(Len(s) - 3) :
                 Slice(s, c, c + 3) = <<"A", "T", "G">> /\ StopsAfter(s, c) # {}}}

\* C1: find_orfs_all_frames emits exactly one entry for every in-frame ATG that
\* has a later codon-aligned stop codon, with frame = i mod 3, start = i+1,
\* end = j+3 for the first such stop, length_nt = (j+3)-i, length_aa =
\* length_nt/3, and no entry for any other start, nested starts included.
C1_OrfEntries ==
    OrfsReturned =>
        /\ Elems(orfs) = ExpectedORFs(dna)
        /\ Len(orfs) = Cardinality(ExpectedORFs(dna))

\* an ORF whose start codon lies inside an already reported ORF of its frame,
\* and a start codon that never reaches a stop
C1_Witness ==
    /\ OrfsReturned
    /\ \E a, b \in 1..Len(orfs) :
          /\ orfs[a].frame = orfs[b].frame
          /\ orfs[a].start < orfs[b].start
          /\ orfs[b].start < orfs[a].end

ExpectedMotifs(s) ==
    {[motif |-> DNA_MEANINGS[n].motif, start |-> k + 1, meaning |-> DNA_MEANINGS[n].meaning] :
        <<n, k>> \in {x \in (1..Len(DNA_MEANINGS)) \X (0..Len(s)) :
                        /\ x[2] + Len(DNA_MEANINGS[x[1]].motif) <= Len(s)
                        /\ \A h \in 1..Len(DNA_MEANINGS[x[1]].motif) :
                              s[x[2] + h] = DNA_MEANINGS[x[1]].motif[h]}}

\* C2: find_motifs returns exactly one entry (m, i+1) for every index i at which
\* a motif m of the table occurs in the sequence, overlapping occurrences of
\* one motif included, and no other entry.
C2_MotifEntries ==
    MotifsReturned =>
        /\ Elems(motifs_found) = ExpectedMotifs(dna)
        /\ Len(motifs_found) = Cardinality(ExpectedMotifs(dna))

\* two reported occurrences of one motif that overlap
C2_Witness ==
    /\ MotifsReturned
    /\ \E a, b \in 1..Len(motifs_found) :
          /\ motifs_found[a].motif = motifs_found[b].motif
          /\ motifs_found[a].start < motifs_found[b].start
          /\ motifs_found[b].start < motifs_found[a].start + Len(motifs_found[a].motif)

TableIndex(m) == CHOOSE n \in 1..Len(DNA_MEANINGS) : DNA_MEANINGS[n].motif = m

\* C3: the list find_motifs returns is in ascending order of start, and entries
\* with the same start are in the order of their motifs in the table.
C3_MotifOrder ==
    MotifsReturned =>
        \A k \in 1..(Len(motifs_found) - 1) :
            \/ motifs_found[k].start < motifs_found[k + 1].start
            \/ /\ motifs_found[k].start = motifs_found[k + 1].start
               /\ TableIndex(motifs_found[k].motif) < TableIndex(motifs_found[k + 1].motif)

\* two motifs reported at the same start, and a later motif of the table
\* reported before an earlier one
C3_Witness ==
    /\ MotifsReturned
    /\ \E k \in 1..(Len(motifs_found) - 1) :
          motifs_found[k].start = motifs_found[k + 1].start
    /\ \E a, b \in 1..Len(motifs_found) :
          a < b /\ TableIndex(motifs_found[a].motif) > TableIndex(motifs_found[b].motif)

\* x is met before y in frame-then-position order
Before(x, y) == x.frame < y.frame \/ (x.frame = y.frame /\ x.start < y.start)

\* C4: on a non-empty ORF list summarize_orfs reports an entry of maximum
\* length_nt, the first one in frame-then-position order among those of that
\* length; on the empty list it reports that no ORF was found.
C4_LongestOrf ==
    summary # Unset =>
        IF orfs = <<>> THEN summary = [text |-> "No ORFs found."]
        ELSE /\ "longest" \in DOMAIN summary
             /\ summary.total = Len(orfs)
             /\ summary.longest \in Elems(orfs)
             /\ \A e \in Elems(orfs) :
                   /\ e.length_nt <= summary.longest.length_nt
                   /\ (e.length_nt = summary.longest.length_nt /\ e # summary.longest)
                         => Before(summary.longest, e)

\* two ORFs tie for the maximum and the one reported starts later in the
\* sequence than the other, being in an earlier frame
C4_Witness ==
    /\ summary # Unset
    /\ "longest" \in DOMAIN summary
    /\ \E e \in Elems(orfs) :
          /\ e.length_nt = summary.longest.length_nt
          /\ e.start < summary.longest.start

\* C5: for every multi-line input, pasted or uploaded, no character of a line
\* beginning with ">" reaches the cleaned sequence.
C5_HeaderLinesExcluded == ScriptCleaned => dna = BasesOutsideHeaders(text)

CountSum(counts) ==
    Get(counts, "A") + Get(counts, "T") + Get(counts, "C") + Get(counts, "G")

\* gc_percent + at_percent, as Python adds the two floats
PercentSum == FAdd(stats.gc_percent, stats.at_percent)

\* C7 as stated: the counts sum to len(S), total = len(S), and
\* gc_percent + at_percent == 100 for every non-empty S.
C7_PercentsSumTo100 ==
    StatsDone =>
        /\ CountSum(stats.counts) = Len(dna)
        /\ stats.total = Len(dna)
        /\ dna # <<>> => PercentSum = FromInt(100)

\* C7 as amended: the counts sum to len(S), total = len(S), and for every
\* non-empty S gc_percent + at_percent is within 2^-45 of 100.
C7_PercentsSumNear100 ==
    StatsDone =>
        /\ CountSum(stats.counts) = Len(dna)
        /\ stats.total = Len(dna)
        /\ dna # <<>> => DyWithin(Exact(PercentSum), DyInt(100), Dy(<<1>>, 0 - 45))

\* a non-empty sequence whose two percentages do not add up to 100.0
C7_Witness == StatsDone /\ dna # <<>> /\ PercentSum # FromInt(100)

\* C8: on the empty sequence no core routine raises: base_counts_and_stats
\* returns total 0, both percentages 0, the infinite ratio and weight 0,
\* find_motifs and find_orfs_all_frames return the empty list, and
\* summarize_orfs reports that no ORF was found.
C8_EmptySequence ==
    (dna = <<>> /\ call # "gene_melody_streamlit.py") =>
        /\ raised \notin {"ZeroDivisionError", "ValueError"}
        /\ (pc \in {"show", "summarize", "done"} /\ call \in {"DNA.py", "base_counts_and_stats"})
              => StatsDone
        /\ StatsDone =>
              /\ stats.total = 0
              /\ stats.gc_percent = Zero /\ stats.at_percent = Zero
              /\ stats.at_gc_ratio = Inf
              /\ stats.mw_da = Zero /\ stats.mw_kda = Zero
        /\ found = <<>> /\ motifs_found = <<>> /\ orfs = <<>>
        /\ summary # Unset => summary = [text |-> "No ORFs found."]

\* a pasted text that is not empty and cleans to the empty sequence, analysed
\* to the end
C8_Witness ==
    /\ call = "DNA.py" /\ pc = "done"
    /\ text # <<>> /\ dna = <<>>
    /\ StatsDone /\ summary # Unset

\* r is within half a unit in the last place of at / gc
NearestQuotient(r, at, gc) ==
    DyWithin(DyMulSmall(Exact(r), 2 * gc), DyInt(2 * at), Dy(IntToBits(gc), Lsb(r)))

\* C9: at_gc_ratio is the infinity sentinel exactly when the sequence holds no
\* G and no C; otherwise it is the finite quotient (A+T)/(G+C); the degenerate
\* case raises nothing and is shown as the infinity sign, not a number.
C9_RatioSentinel ==
    /\ raised # "ZeroDivisionError"
    /\ StatsDone =>
          LET gc == Cardinality({p \in 1..Len(dna) : dna[p] \in {"G", "C"}})
              at == Cardinality({p \in 1..Len(dna) : dna[p] \in {"A", "T"}})
          IN  /\ stats.at_gc_ratio = Inf <=> gc = 0
              /\ gc > 0 => /\ ~stats.at_gc_ratio.inf
                           /\ NearestQuotient(stats.at_gc_ratio, at, gc)
              /\ shown # Unset => (shown = [text |-> InfinitySign] <=> gc = 0)

\* a non-empty sequence of A and T only, its ratio shown as the infinity sign
C9_Witness ==
    /\ StatsDone /\ dna # <<>>
    /\ stats.at_gc_ratio = Inf
    /\ shown = [text |-> InfinitySign]

\* a match moves the search start strictly forward, and a motif is left only
\* at a failed search
MotifProgress ==
    /\ (pc = "motifs" /\ found' # found) => (start' > start /\ mi' = mi)
    /\ (pc = "motifs" /\ mi' # mi) =>
          /\ Find(dna, DNA_MEANINGS[mi].motif, start) = -1
          /\ mi' = mi + 1 /\ found' = found

\* every iteration of the outer loop adds 3 to i, every step of the inner
\* loop adds 3 to j, and the inner loop is left only at a stop codon or at
\* the end of the sequence
OrfProgress ==
    /\ (pc = "orfs" /\ pc' = "orfs" /\ frame' = frame) => i' = i + 3
    /\ (pc = "orf_inner" /\ pc' = "orfs") =>
          /\ i' = i + 3
          /\ \/ j + 3 > Len(dna)
             \/ Slice(dna, j, j + 3) \in {<<"T", "A", "A">>, <<"T", "A", "G">>, <<"T", "G", "A">>}
    /\ (pc = "orf_inner" /\ pc' = "orf_inner") => j' = j + 3

\* C10: find_motifs and find_orfs_all_frames terminate: every run ends, the
\* search start strictly increases after each match, i grows by 3 on every
\* outer iteration and j by 3 on every inner step.
C10_LoopsTerminate ==
    /\ InFindMotifs ~> ~InFindMotifs
    /\ InFindOrfs ~> ~InFindOrfs
    /\ [][MotifProgress /\ OrfProgress]_vars

\* a call of find_orfs_all_frames that ran the inner loop to a stop codon more
\* than once and returned
C10_Witness ==
    /\ pc = "done" /\ call = "find_orfs_all_frames"
    /\ Len(orfs) >= 2

=============================================================================
